---- MODULE Spec2Model ----
(***************************************************************************)
(* LoyaltyDraw public audit tool (src/audit.py): the three audit levels    *)
(* run by main(), and the pure functions they are built from.              *)
(*                                                                         *)
(* Representation.  A Python str is a sequence of one-character strings,   *)
(* a Python bytes object is a sequence of byte values; encode/decode map   *)
(* between them through Ord/Chr (all characters used are ASCII, except the *)
(* ellipsis of display_alias, which is never encoded).  An optional value  *)
(* (dict.get of a key that may be missing) is a record [some, val].        *)
(*                                                                         *)
(* BLAKE2b-256 is replaced by a small deterministic digest function of the *)
(* byte stream (Digest): same interface (bytes in, fixed-length lowercase  *)
(* hex out, incremental updates = digest of the concatenation), far        *)
(* smaller range.                                                          *)
(***************************************************************************)
EXTENDS Integers, Sequences, FiniteSets, TLC

VARIABLES
    args,            \* command-line options bound so far (option -> value)
    winners,         \* keys of winners.json bound so far (key -> value)
    snapshot_bytes,  \* raw bytes of snapshot.csv
    pc,              \* position of main()
    rows,            \* parse_snapshot_csv result once parsed
    l2,              \* Level 2 sub-results: ok_totals, ok_order, ok_hash
    log,             \* what the run has evaluated/reported so far, in order
    exit_code,       \* -1 while running, else the process exit status
    fin,             \* input of the pure function under check
    fout             \* its result

vars == <<args, winners, snapshot_bytes, pc, rows, l2, log, exit_code, fin, fout>>

(***************************************************************************)
(* Bounds of the model.                                                    *)
(***************************************************************************)
\* number of distinct digests of the stand-in hash
DigestMod == 3
\* most data rows of a snapshot.csv given to main()
MaxSnapRows == 2
\* longest record sequence given to validate_canonical_order / reproduce_winners
MaxRows == 3
\* longest record sequence given to compute_canonical_snapshot_hash
MaxEncRows == 2
\* largest k_total given to reproduce_winners
MaxK == 3

(***************************************************************************)
(* Characters, strings, bytes.                                             *)
(***************************************************************************)
CharTable ==
    << <<"\n", 10>>, <<" ", 32>>, <<",", 44>>, <<"-", 45>>,
       <<"0", 48>>, <<"1", 49>>, <<"2", 50>>, <<"3", 51>>, <<"4", 52>>,
       <<"5", 53>>, <<"6", 54>>, <<"7", 55>>, <<"8", 56>>, <<"9", 57>>,
       <<":", 58>>, <<"A", 65>>, <<"B", 66>>, <<"C", 67>>, <<"D", 68>>,
       <<"E", 69>>, <<"F", 70>>, <<"N", 78>>, <<"_", 95>>,
       <<"a", 97>>, <<"b", 98>>, <<"c", 99>>, <<"d", 100>>, <<"e", 101>>,
       <<"f", 102>>, <<"g", 103>>, <<"h", 104>>, <<"i", 105>>, <<"n", 110>>,
       <<"o", 111>>, <<"p", 112>>, <<"r", 114>>, <<"s", 115>>, <<"t", 116>>,
       <<"u", 117>>, <<"v", 118>>, <<"w", 119>>, <<"x", 120>>, <<"z", 122>>,
       <<"|", 124>> >>

OrdTable ==
    [c \in {CharTable[i][1] : i \in DOMAIN CharTable} |->
        CharTable[CHOOSE i \in DOMAIN CharTable : CharTable[i][1] = c][2]]
ChrTable ==
    [n \in {CharTable[i][2] : i \in DOMAIN CharTable} |->
        CharTable[CHOOSE i \in DOMAIN CharTable : CharTable[i][2] = n][1]]

\* ord(c): the code point of a character
Ord(c) == OrdTable[c]

\* chr(n)
Chr(n) == ChrTable[n]

\* str.encode("utf-8") on ASCII text
EncodeUtf8(s) == [i \in DOMAIN s |-> Ord(s[i])]

\* bytes.decode("utf-8") on ASCII bytes
DecodeUtf8(b) == [i \in DOMAIN b |-> Chr(b[i])]

\* Python's str < str: lexicographic by code point, a proper prefix is smaller
RECURSIVE StrLess(_, _)
StrLess(s, t) ==
    IF t = <<>> THEN FALSE
    ELSE IF s = <<>> THEN TRUE
    ELSE IF Ord(Head(s)) # Ord(Head(t)) THEN Ord(Head(s)) < Ord(Head(t))
    ELSE StrLess(Tail(s), Tail(t))

\* str.lower() of one character
LowerChar(c) ==
    CASE c = "A" -> "a" [] c = "B" -> "b" [] c = "C" -> "c"
      [] c = "D" -> "d" [] c = "E" -> "e" [] c = "F" -> "f" [] OTHER -> c

\* str.lower()
Lower(s) == [i \in DOMAIN s |-> LowerChar(s[i])]

\* the characters str.strip() removes
IsSpace(c) == c \in {" ", "\n"}

RECURSIVE LStrip(_)
LStrip(s) == IF s # <<>> /\ IsSpace(Head(s)) THEN LStrip(Tail(s)) ELSE s

RECURSIVE RStrip(_)
RStrip(s) ==
    IF s # <<>> /\ IsSpace(s[Len(s)]) THEN RStrip(SubSeq(s, 1, Len(s) - 1)) ELSE s

\* str.strip()
Strip(s) == RStrip(LStrip(s))

\* str(n) of an int: decimal ASCII, "-" for negatives
DigitChar(d) == <<"0", "1", "2", "3", "4", "5", "6", "7", "8", "9">>[d + 1]

RECURSIVE StrNat(_)
StrNat(n) == IF n < 10 THEN <<DigitChar(n)>> ELSE StrNat(n \div 10) \o <<DigitChar(n % 10)>>

Str(n) == IF n < 0 THEN <<"-">> \o StrNat(-n) ELSE StrNat(n)

IsDigit(c) == c \in {"0", "1", "2", "3", "4", "5", "6", "7", "8", "9"}

DigitVal(c) == Ord(c) - 48

RECURSIVE NatOf(_, _)
NatOf(s, acc) == IF s = <<>> THEN acc ELSE NatOf(Tail(s), acc * 10 + DigitVal(Head(s)))

\* int(text): [ok, val]; surrounding whitespace is accepted, then an optional
\* sign and at least one digit; anything else raises (ok = FALSE)
int(cell) ==
    LET s == Strip(cell)
        neg == s # <<>> /\ Head(s) = "-"
        d == IF neg THEN Tail(s) ELSE s
    IN  IF d # <<>> /\ \A i \in DOMAIN d : IsDigit(d[i])
        THEN [ok |-> TRUE, val |-> IF neg THEN -NatOf(d, 0) ELSE NatOf(d, 0)]
        ELSE [ok |-> FALSE, val |-> 0]

\* optional values
None == [some |-> FALSE, val |-> <<>>]
Some(v) == [some |-> TRUE, val |-> v]
\* (x or ""): a missing or empty string is ""
OrEmpty(x) == IF x.some THEN x.val ELSE <<>>

(***************************************************************************)
(* Hashing.                                                                *)
(***************************************************************************)
\* the contribution of bytes lo..hi of the stream to the digest
RECURSIVE Absorb(_, _, _)
Absorb(data, lo, hi) ==
    IF lo > hi THEN 0
    ELSE IF lo = hi THEN (((lo % 5) + 1) * (data[lo] + 1)) % DigestMod
    ELSE LET mid == (lo + hi) \div 2
         IN  (Absorb(data, lo, mid) + Absorb(data, mid + 1, hi)) % DigestMod

\* the digest of a whole byte stream, as an integer in 0 .. DigestMod-1: a
\* function of every byte, its position, and the length
Digest(data) == (Len(data) + Absorb(data, 1, Len(data))) % DigestMod

\* hexdigest(): lowercase hex text of the digest
HexDigest(v) == <<(<<"a", "b", "c", "d", "e", "f">>)[v + 1]>>

\* blake2b_hex(data)
blake2b_hex(data) == HexDigest(Digest(data))

(***************************************************************************)
(* Snapshot parsing.                                                       *)
(***************************************************************************)
\* the pieces of s between occurrences of sep (str.split with a separator)
Split(s, sep) ==
    LET cuts == {i \in DOMAIN s : s[i] = sep} \cup {0, Len(s) + 1}
        Cut(k) == CHOOSE p \in cuts : Cardinality({q \in cuts : q < p}) = k
    IN  [k \in 1 .. Cardinality(cuts) - 1 |-> SubSeq(s, Cut(k - 1) + 1, Cut(k) - 1)]

\* csv.reader over quote-free text: one list of cells per line, a final
\* newline opens no further line, an empty line is the empty list
CsvRows(text) ==
    LET pieces == Split(text, "\n")
        lines == IF pieces[Len(pieces)] = <<>>
                 THEN SubSeq(pieces, 1, Len(pieces) - 1) ELSE pieces
    IN  [i \in DOMAIN lines |->
            IF lines[i] = <<>> THEN <<>> ELSE Split(lines[i], ",")]

\* csv.DictReader: the first non-empty row names the fields, empty rows are
\* skipped
DictReader(text) ==
    LET nonempty == SelectSeq(CsvRows(text), LAMBDA r : r # <<>>)
    IN  IF nonempty = <<>>
        THEN [fieldnames |-> <<>>, records |-> <<>>]
        ELSE [fieldnames |-> Head(nonempty), records |-> Tail(nonempty)]

\* rec[name] of a DictReader record: the cell under the last field of that
\* name, None (restval) when the row is too short
Field(fieldnames, rec, name) ==
    LET at == {i \in DOMAIN fieldnames : fieldnames[i] = name}
        i == CHOOSE j \in at : \A m \in at : m <= j
    IN  IF i <= Len(rec) THEN Some(rec[i]) ELSE None

ColShard == <<"s", "h", "a", "r", "d">>
ColUser == <<"u", "s", "e", "r", "_", "i", "d">>
ColWeight == <<"w", "e", "i", "g", "h", "t">>

\* one data row: [ok, row]
ParseRecord(fieldnames, rec) ==
    LET cs == Field(fieldnames, rec, ColShard)
        cu == Field(fieldnames, rec, ColUser)
        cw == Field(fieldnames, rec, ColWeight)
        shard == IF cs.some THEN int(cs.val) ELSE [ok |-> FALSE, val |-> 0]
        weight == IF cw.some THEN int(cw.val) ELSE [ok |-> FALSE, val |-> 0]
        user == IF cu.some THEN cu.val ELSE <<"N", "o", "n", "e">>
    IN  [ok |-> shard.ok /\ weight.ok,
         row |-> [shard |-> shard.val, user_id |-> user, weight |-> weight.val]]

\* parse_snapshot_csv(raw): [ok, err, rows]; err is "columns" for the missing
\* columns ValueError and "row" for the invalid row ValueError
parse_snapshot_csv(raw) ==
    LET rdr == DictReader(DecodeUtf8(raw))
        headers == {rdr.fieldnames[i] : i \in DOMAIN rdr.fieldnames}
        parsed == [i \in DOMAIN rdr.records |-> ParseRecord(rdr.fieldnames, rdr.records[i])]
    IN  IF ~({ColShard, ColUser, ColWeight} \subseteq headers)
        THEN [ok |-> FALSE, err |-> "columns", rows |-> <<>>]
        ELSE IF \E i \in DOMAIN parsed : ~parsed[i].ok
        THEN [ok |-> FALSE, err |-> "row", rows |-> <<>>]
        ELSE [ok |-> TRUE, err |-> "", rows |-> [i \in DOMAIN parsed |-> parsed[i].row]]

(***************************************************************************)
(* Canonical encoding.                                                     *)
(***************************************************************************)
TagSnapshot ==
    <<"s", "n", "a", "p", "s", "h", "o", "t", "|", "v", "e", "r", ":", "1",
      "|", "p", "e", "r", "i", "o", "d", ":">>
TagShard == <<"|", "s", "h", "a", "r", "d", ":">>
TagUser == <<"|", "u", "s", "e", "r", ":">>
TagW == <<"|", "w", ":">>
NL == <<"\n">>

\* what the loop body feeds to the hash for one row
EncodeRow(r) ==
    EncodeUtf8(TagShard) \o EncodeUtf8(Str(r.shard))
    \o EncodeUtf8(TagUser) \o EncodeUtf8(r.user_id)
    \o EncodeUtf8(TagW) \o EncodeUtf8(Str(r.weight)) \o EncodeUtf8(NL)

RECURSIVE EncodeRows(_)
EncodeRows(rs) == IF rs = <<>> THEN <<>> ELSE EncodeRow(Head(rs)) \o EncodeRows(Tail(rs))

\* the byte stream compute_canonical_snapshot_hash feeds to the hash
CanonicalStream(period, rs) ==
    EncodeUtf8(TagSnapshot) \o EncodeUtf8(period) \o EncodeRows(rs)

\* compute_canonical_snapshot_hash(period, rows)
compute_canonical_snapshot_hash(period, rs) == HexDigest(Digest(CanonicalStream(period, rs)))

(***************************************************************************)
(* Order validation.                                                       *)
(***************************************************************************)
NoneInt == [some |-> FALSE, val |-> 0]

RuleShard == "shard decreased"
RuleUser == "user_id not ascending within shard"

\* mutant: an identity equal to the last one is rejected too
UserNotAbove(user, last_user) == ~StrLess(last_user, user)

\* user < last_user (line 119)
UserDecreases(user, last_user) == StrLess(user, last_user)

\* the loop of validate_canonical_order from row idx (0-based) on
RECURSIVE OrderScan(_, _, _, _)
OrderScan(rs, idx, last_shard, last_user) ==
    IF idx >= Len(rs) THEN [ok |-> TRUE, idx |-> -1, rule |-> ""]
    ELSE
        LET r == rs[idx + 1]
            fresh == ~last_shard.some \/ r.shard > last_shard.val
            ls == IF fresh THEN Some(r.shard) ELSE last_shard
            lu == IF fresh THEN None ELSE last_user
        IN  IF ~fresh /\ r.shard < last_shard.val
            THEN [ok |-> FALSE, idx |-> idx, rule |-> RuleShard]
            ELSE IF lu.some /\ UserDecreases(r.user_id, lu.val)
            THEN [ok |-> FALSE, idx |-> idx, rule |-> RuleUser]
            ELSE OrderScan(rs, idx + 1, ls, Some(r.user_id))

\* validate_canonical_order(rows): [ok, idx, rule]
validate_canonical_order(rs) == OrderScan(rs, 0, NoneInt, None)

(***************************************************************************)
(* Efraimidis-Spirakis reproduction.                                       *)
(***************************************************************************)
TagDerive ==
    <<"d", "e", "r", "i", "v", "e", "_", "u", "|", "v", "e", "r", ":", "1", "|">>
TagPeriod == <<"|", "p", "e", "r", "i", "o", "d", ":">>

IsHex(c) == IsDigit(c) \/ c \in {"a", "b", "c", "d", "e", "f", "A", "B", "C", "D", "E", "F"}

HexVal(c) == IF IsDigit(c) THEN DigitVal(c) ELSE Ord(LowerChar(c)) - 87

RECURSIVE HexBytes(_)
HexBytes(s) ==
    IF s = <<>> THEN <<>>
    ELSE <<HexVal(s[1]) * 16 + HexVal(s[2])>> \o HexBytes(SubSeq(s, 3, Len(s)))

\* bytes.fromhex(text): [ok, val]; raises on a non-hex character or an odd
\* number of digits
fromhex(s) ==
    IF Len(s) % 2 = 0 /\ \A i \in DOMAIN s : IsHex(s[i])
    THEN [ok |-> TRUE, val |-> HexBytes(s)]
    ELSE [ok |-> FALSE, val |-> <<>>]

\* derive_u(seed, period, shard, user_id): u = num/DigestMod, or the clamp
\* value 5e-324 (tiny) when the digest is 0
derive_u(seed, period, shard, user_id) ==
    LET n == Digest(EncodeUtf8(TagDerive) \o seed
                    \o EncodeUtf8(TagPeriod) \o EncodeUtf8(period)
                    \o EncodeUtf8(TagShard) \o EncodeUtf8(Str(shard))
                    \o EncodeUtf8(TagUser) \o EncodeUtf8(user_id))
    IN  [num |-> n % DigestMod, tiny |-> (n % DigestMod) <= 0]

RECURSIVE Pow(_, _)
Pow(b, e) == IF e = 0 THEN 1 ELSE b * Pow(b, e - 1)

\* score = -log(u) / weight, kept as the pair (u, weight)
Score(u, weight) == [num |-> u.num, tiny |-> u.tiny, w |-> weight]

\* a < b on scores, exactly: -ln(ua)/wa < -ln(ub)/wb iff ua^wb > ub^wa; with
\* the clamp value, -ln(5e-324) = 744.4 exceeds any other -ln(u) by more than
\* any ratio of the weights used here
ScoreLess(a, b) ==
    CASE a.tiny /\ b.tiny -> a.w > b.w
      [] a.tiny /\ ~b.tiny -> FALSE
      [] ~a.tiny /\ b.tiny -> TRUE
      [] OTHER -> Pow(a.num, b.w) * Pow(DigestMod, a.w) > Pow(b.num, a.w) * Pow(DigestMod, b.w)

\* mutant: rows of weight 0 take part in the draw
ScorableNonNegative(weight) == ~(weight < 0)

\* the filter of the scoring loop: rows that take part in the draw (line 144)
Scorable(weight) == ~(weight <= 0)

\* the scoring loop; pos (the row's 1-based input position) is a ghost field
RECURSIVE ScoredFrom(_, _, _, _)
ScoredFrom(seed, period, rs, i) ==
    IF i > Len(rs) THEN <<>>
    ELSE
        LET r == rs[i]
        IN  IF ~Scorable(r.weight) THEN ScoredFrom(seed, period, rs, i + 1)
            ELSE <<[score |-> Score(derive_u(seed, period, r.shard, r.user_id), r.weight),
                    user_id |-> r.user_id, weight |-> r.weight, pos |-> i]>>
                 \o ScoredFrom(seed, period, rs, i + 1)

\* list.sort(key = score): stable, ascending
RECURSIVE InsertSorted(_, _)
InsertSorted(sorted, x) ==
    IF sorted = <<>> THEN <<x>>
    ELSE IF ScoreLess(x.score, Head(sorted).score) THEN <<x>> \o sorted
    ELSE <<Head(sorted)>> \o InsertSorted(Tail(sorted), x)

RECURSIVE SortByScore(_)
SortByScore(s) ==
    IF s = <<>> THEN <<>>
    ELSE InsertSorted(SortByScore(SubSeq(s, 1, Len(s) - 1)), s[Len(s)])

\* s[:k], negative k counting from the end
Take(s, k) ==
    LET n == IF k < 0 THEN (IF Len(s) + k < 0 THEN 0 ELSE Len(s) + k)
             ELSE (IF k > Len(s) THEN Len(s) ELSE k)
    IN  SubSeq(s, 1, n)

\* top = scored[:k_total] after the sort (with the ghost positions)
TopScored(seed, period, rs, k_total) ==
    Take(SortByScore(ScoredFrom(seed, period, rs, 1)), k_total)

\* reproduce_winners(seed_hex, period, rows, k_total) for a valid seed_hex
reproduce_winners(seed_hex, period, rs, k_total) ==
    LET top == TopScored(fromhex(seed_hex).val, period, rs, k_total)
    IN  [i \in DOMAIN top |-> <<top[i].user_id, top[i].weight>>]

\* display_alias(uuid_like)
Ellipsis == "..."
display_alias(uuid_like) ==
    LET s == Lower(SelectSeq(uuid_like, LAMBDA c : c # "-"))
    IN  IF Len(s) < 12 THEN s
        ELSE SubSeq(s, 1, 8) \o <<Ellipsis>> \o SubSeq(s, Len(s) - 3, Len(s))

(***************************************************************************)
(* Inputs of a run of main().                                              *)
(***************************************************************************)
Levels == {"all", "1", "2", "3"}
Policies == {"error", "skip", "warn"}

RECURSIVE SeqsUpTo(_, _)
\* all sequences over S of length at most n
SeqsUpTo(S, n) ==
    IF n = 0 THEN {<<>>}
    ELSE LET shorter == SeqsUpTo(S, n - 1)
         IN  shorter \cup {Append(q, x) : q \in shorter, x \in S}

RECURSIVE Concat(_)
Concat(ss) == IF ss = <<>> THEN <<>> ELSE Head(ss) \o Concat(Tail(ss))

HeaderLine == ColShard \o <<",">> \o ColUser \o <<",">> \o ColWeight \o NL
HeaderNoWeight == ColShard \o <<",">> \o ColUser \o NL

\* data lines of snapshot.csv: sequences of them are in order or out of
\* order, with or without a negative weight
DataLines ==
    { <<"1", ",", "b", ",", "2", "\n">>,
      <<"1", ",", "a", ",", "-", "1", "\n">>,
      <<"2", ",", "a", ",", "1", "\n">> }
\* a data line whose shard is no integer
BadLine == <<"x", ",", "a", ",", "1", "\n">>

\* a period that ends in a CSV header line, and the snapshot text that is
\* byte for byte the canonical stream of that period with no rows
HeaderPeriod == <<",">> \o HeaderLine
HeaderPeriodSnapshot == TagSnapshot \o HeaderPeriod

SnapshotTexts ==
    {HeaderLine \o Concat(ls) : ls \in SeqsUpTo(DataLines, MaxSnapRows)}
    \cup {HeaderLine \o BadLine, HeaderNoWeight, <<>>, HeaderPeriodSnapshot}

SnapshotPool == {EncodeUtf8(t) : t \in SnapshotTexts}

ArgPeriods == {None, Some(<<" ", "p">>)}
WinnersPeriods == {None, Some(<<"p">>), Some(HeaderPeriod)}

UpperChar(c) ==
    CASE c = "a" -> "A" [] c = "b" -> "B" [] c = "c" -> "C"
      [] c = "d" -> "D" [] c = "e" -> "E" [] c = "f" -> "F" [] OTHER -> c

\* values of winners.json snapshot_hash_hex: missing, empty, blank, and every
\* digest in lower case, in upper case, and padded with whitespace
PublishedPool ==
    {None, Some(<<>>)}
    \cup UNION {LET h == HexDigest(v)
                IN  {Some(h), Some([i \in DOMAIN h |-> UpperChar(h[i])]),
                     Some(<<" ">> \o h \o NL)} : v \in 0 .. DigestMod - 1}

NoneTotals == [some |-> FALSE, users |-> 0, entries |-> 0]
TotalsPool ==
    {NoneTotals}
    \cup {[some |-> TRUE, users |-> t[1], entries |-> t[2]] :
            t \in {<<1, 0>>, <<1, 2>>, <<2, 1>>, <<2, 2>>, <<2, 3>>}}

CommitSeeds == {None, Some(<<>>), Some(<<"a", "b">>), Some(<<"z">>)}
LegacySeeds == {None, Some(<<>>), Some(<<"0", "F">>)}
KPool == {0, 1}
\* winners_primary / winners_alternates: each entry is its alias, or None for
\* an entry without the key
PrimaryPool == {<<>>, <<Some(<<"a">>)>>, <<Some(<<"b">>), None>>}
AlternatesPool == {<<>>, <<Some(<<"a">>)>>}

(***************************************************************************)
(* main().  The parsed command line and winners.json are read once and     *)
(* never written, so an option or a key is bound to its value (in args, in *)
(* winners) when main() first uses it: the level at once, the period       *)
(* option only if winners.json names no period, the on-missing-seed policy *)
(* only if the seed is missing.                                            *)
(***************************************************************************)
\* the values a key of winners.json can turn out to have
Reads(key, pool) == IF key \in DOMAIN winners THEN {winners[key]} ELSE pool

Bind(key, v) == (key :> v) @@ winners

want_levels == IF args["level"] = "all" THEN {"1", "2", "3"} ELSE {args["level"]}

\* period = winners.get("period") or (args.period or "").strip()
PeriodOf(wp, ap) == IF OrEmpty(wp) # <<>> THEN wp.val ELSE Strip(OrEmpty(ap))

period ==
    PeriodOf(winners["period"], IF "period" \in DOMAIN args THEN args["period"] ELSE None)

\* where main() goes after the rows are parsed / after Level 2 passed
AfterParse == IF "2" \in want_levels THEN "l2_totals"
              ELSE IF "3" \in want_levels THEN "level3" ELSE "done"
AfterLevel2 == IF "3" \in want_levels THEN "level3" ELSE "done"

Running == [ok_totals |-> FALSE, ok_order |-> FALSE, ok_hash |-> FALSE]

Init ==
    /\ \E lv \in Levels : args = ("level" :> lv)
    /\ snapshot_bytes \in SnapshotPool
    /\ winners = <<>>
    /\ pc = "start"
    /\ rows = <<>>
    /\ l2 = Running
    /\ log = <<>>
    /\ exit_code = -1
    /\ fin = <<>>
    /\ fout = <<>>

\* lines 198-214: determine the period, pick the levels
Start ==
    /\ pc = "start"
    /\ \E wp \in WinnersPeriods, ap \in ArgPeriods :
        /\ winners' = Bind("period", wp)
        /\ args' = (IF OrEmpty(wp) # <<>> THEN args ELSE ("period" :> ap) @@ args)
        /\ IF PeriodOf(wp, ap) = <<>>
           THEN pc' = "done" /\ exit_code' = 1
           ELSE /\ pc' = (IF "1" \in want_levels THEN "level1" ELSE "parse")
                /\ exit_code' = exit_code
    /\ UNCHANGED <<snapshot_bytes, rows, l2, log, fin, fout>>

\* mutant: the digest text is stripped but not lowercased
NormalizeNoLower(s) == Strip(s)

\* .strip().lower() of a digest text (lines 218-219, 250-251)
Normalize(s) == Lower(Strip(s))

\* the comparison of Level 1 (line 223)
Level1Match(expected, computed) == expected = computed /\ expected # <<>>

\* mutant: a Level 1 mismatch is reported but the run goes on
Level1Continue ==
    /\ pc = "level1"
    /\ \E h \in Reads("snapshot_hash_hex", PublishedPool) :
        /\ winners' = Bind("snapshot_hash_hex", h)
        /\ log' = Append(log, IF Level1Match(Normalize(OrEmpty(h)),
                                             Normalize(blake2b_hex(snapshot_bytes)))
                              THEN "l1_match" ELSE "l1_mismatch")
    /\ pc' = "parse"
    /\ UNCHANGED <<args, snapshot_bytes, rows, l2, exit_code, fin, fout>>

\* lines 216-227
Level1 ==
    /\ pc = "level1"
    /\ \E h \in Reads("snapshot_hash_hex", PublishedPool) :
        LET expected == Normalize(OrEmpty(h))
            computed == Normalize(blake2b_hex(snapshot_bytes))
        IN  /\ winners' = Bind("snapshot_hash_hex", h)
            /\ IF Level1Match(expected, computed)
               THEN /\ log' = Append(log, "l1_match")
                    /\ pc' = "parse"
                    /\ exit_code' = exit_code
               ELSE /\ log' = Append(log, "l1_mismatch")
                    /\ pc' = "done"
                    /\ exit_code' = 2
    /\ UNCHANGED <<args, snapshot_bytes, rows, l2, fin, fout>>

\* line 230: the rows are parsed whatever the levels asked for; a ValueError
\* is not caught by main() and ends the process with status 1
Parse ==
    /\ pc = "parse"
    /\ LET p == parse_snapshot_csv(snapshot_bytes)
       IN  IF p.ok
           THEN /\ rows' = p.rows
                /\ log' = log
                /\ pc' = AfterParse
                /\ exit_code' = (IF AfterParse = "done" THEN 0 ELSE exit_code)
           ELSE /\ rows' = rows
                /\ log' = Append(log, "parse_error")
                /\ pc' = "done"
                /\ exit_code' = 1
    /\ UNCHANGED <<args, winners, snapshot_bytes, l2, fin, fout>>

RECURSIVE SumEntries(_)
\* sum(max(0, int(w)) for _, _, w in rows)
SumEntries(rs) ==
    IF rs = <<>> THEN 0
    ELSE (IF Head(rs).weight > 0 THEN Head(rs).weight ELSE 0) + SumEntries(Tail(rs))

\* ok_totals (lines 236-241)
TotalsOk(totals, rs) == totals.users = Len(rs) /\ totals.entries = SumEntries(rs)

\* lines 234-243
L2Totals ==
    /\ pc = "l2_totals"
    /\ \E t \in Reads("totals", TotalsPool) :
        /\ winners' = Bind("totals", t)
        /\ l2' = [l2 EXCEPT !.ok_totals = TotalsOk(t, rows)]
    /\ log' = Append(log, "l2_totals")
    /\ pc' = "l2_order"
    /\ UNCHANGED <<args, snapshot_bytes, rows, exit_code, fin, fout>>

\* lines 246-247
L2Order ==
    /\ pc = "l2_order"
    /\ l2' = [l2 EXCEPT !.ok_order = validate_canonical_order(rows).ok]
    /\ log' = Append(log, "l2_order")
    /\ pc' = "l2_hash"
    /\ UNCHANGED <<args, winners, snapshot_bytes, rows, exit_code, fin, fout>>

\* mutant: the canonical hash is only required to be published
CanonicalHashPresent(expected_h, recomputed) == expected_h # <<>>

\* expected_h == recomputed (lines 250-252)
CanonicalHashOk(expected_h, recomputed) == expected_h = recomputed

\* lines 250-252
L2Hash ==
    /\ pc = "l2_hash"
    /\ \E h \in Reads("snapshot_hash_hex", PublishedPool) :
        LET recomputed == Normalize(compute_canonical_snapshot_hash(period, rows))
            expected_h == Normalize(OrEmpty(h))
        IN  /\ winners' = Bind("snapshot_hash_hex", h)
            /\ l2' = [l2 EXCEPT !.ok_hash = CanonicalHashOk(expected_h, recomputed)]
    /\ log' = Append(log, "l2_hash")
    /\ pc' = "l2_verdict"
    /\ UNCHANGED <<args, snapshot_bytes, rows, exit_code, fin, fout>>

\* mutant: the verdict forgets the order sub-check
Level2PassedNoOrder(r) == r.ok_totals /\ r.ok_hash

\* the condition of line 253, negated: Level 2 passes
Level2Passed(r) == r.ok_totals /\ r.ok_order /\ r.ok_hash

\* lines 253-256
L2Verdict ==
    /\ pc = "l2_verdict"
    /\ IF Level2Passed(l2)
       THEN /\ log' = Append(log, "l2_pass")
            /\ pc' = AfterLevel2
            /\ exit_code' = (IF AfterLevel2 = "done" THEN 0 ELSE exit_code)
       ELSE /\ log' = Append(log, "l2_fail")
            /\ pc' = "done"
            /\ exit_code' = 3
    /\ UNCHANGED <<args, winners, snapshot_bytes, rows, l2, fin, fout>>

\* seed_hex = commit.get("seed_hex") or winners.get("seed_hex") (line 212)
SeedLookup(commit_seed, legacy_seed) ==
    IF OrEmpty(commit_seed) # <<>> THEN commit_seed ELSE legacy_seed

\* mutant: only a missing key counts, an empty seed text does not
SeedMissingNoneOnly(seed_hex) == ~seed_hex.some

\* not seed_hex (line 260)
SeedMissing(seed_hex) == ~seed_hex.some \/ seed_hex.val = <<>>

\* lines 259-275
Level3Seed ==
    /\ pc = "level3"
    /\ \E cs \in CommitSeeds, ls \in LegacySeeds, policy \in Policies :
        /\ winners' = ("commit.seed_hex" :> cs) @@ ("seed_hex" :> ls) @@ winners
        /\ IF SeedMissing(SeedLookup(cs, ls))
           THEN /\ args' = ("on_missing_seed" :> policy) @@ args
                /\ log' = Append(log, "l3_unavailable")
                /\ pc' = "done"
                /\ exit_code' = (IF policy = "error" THEN 4 ELSE 0)
           ELSE /\ args' = args
                /\ log' = log
                /\ pc' = "l3_reproduce"
                /\ exit_code' = exit_code
    /\ UNCHANGED <<snapshot_bytes, rows, l2, fin, fout>>

\* pub_aliases (lines 206-208)
PubAliases(primary, alternates) ==
    LET present == SelectSeq(primary \o alternates, LAMBDA w : w.some)
    IN  [i \in DOMAIN present |-> present[i].val]

\* lines 277-303; a seed_hex that is no hex text makes bytes.fromhex raise
\* inside reproduce_winners, which main() does not catch
Level3Reproduce ==
    /\ pc = "l3_reproduce"
    /\ \E kp \in KPool, ka \in KPool, wp \in PrimaryPool, wa \in AlternatesPool :
        LET seed_hex == SeedLookup(winners["commit.seed_hex"], winners["seed_hex"]).val
            recomputed_full == reproduce_winners(seed_hex, period, rows, kp + ka)
            recomputed_aliases ==
                [i \in DOMAIN recomputed_full |-> display_alias(recomputed_full[i][1])]
            pub_aliases == PubAliases(wp, wa)
        IN  /\ winners' = ("k_primary" :> kp) @@ ("k_alternates" :> ka)
                          @@ ("winners_primary" :> wp) @@ ("winners_alternates" :> wa)
                          @@ winners
            /\ IF ~fromhex(seed_hex).ok
               THEN log' = log \o <<"l3_reproduce", "l3_error">> /\ exit_code' = 1
               ELSE IF Len(recomputed_aliases) # Len(pub_aliases)
               THEN log' = log \o <<"l3_reproduce", "l3_size_mismatch">> /\ exit_code' = 5
               ELSE IF recomputed_aliases = pub_aliases
               THEN log' = log \o <<"l3_reproduce", "l3_match">> /\ exit_code' = 0
               ELSE log' = log \o <<"l3_reproduce", "l3_content_mismatch">> /\ exit_code' = 6
    /\ pc' = "done"
    /\ UNCHANGED <<args, snapshot_bytes, rows, l2, fin, fout>>

Next ==
    \/ Start
    \/ Level1
    \/ Parse
    \/ L2Totals
    \/ L2Order
    \/ L2Hash
    \/ L2Verdict
    \/ Level3Seed
    \/ Level3Reproduce

Spec == Init /\ [][Next]_vars

(***************************************************************************)
(* The pure functions on their own: the input is drawn in the initial      *)
(* state (pc = "call") and one step applies the function (pc = "ret").     *)
(***************************************************************************)
Idle ==
    /\ args = <<>>
    /\ winners = <<>>
    /\ snapshot_bytes = <<>>
    /\ rows = <<>>
    /\ l2 = Running
    /\ log = <<>>
    /\ exit_code = -1
    /\ pc = "call"
    /\ fout = <<>>

IdleUnchanged == UNCHANGED <<args, winners, snapshot_bytes, rows, l2, log, exit_code, fin>>

\* validate_canonical_order
OrderRows == [shard : {1, 2}, user_id : {<<"a">>, <<"a", "b">>, <<"b">>}, weight : {-1, 1}]

InitOrder == Idle /\ fin \in SeqsUpTo(OrderRows, MaxRows)

CallOrder ==
    /\ pc = "call"
    /\ fout' = validate_canonical_order(fin)
    /\ pc' = "ret"
    /\ IdleUnchanged

NextOrder == CallOrder

SpecOrder == InitOrder /\ [][NextOrder]_vars

\* reproduce_winners
ReproRows == [shard : {1}, user_id : {<<"a">>, <<"b">>}, weight : {-1, 0, 1, 2}]
ReproSeeds == {<<"a", "b">>, <<"0", "F">>}

InitRepro ==
    /\ Idle
    /\ fin \in [seed_hex : ReproSeeds, period : {<<"p">>},
                rows : SeqsUpTo(ReproRows, MaxRows), k_total : -1 .. MaxK]

\* fout.top is the slice with the ghost positions, fout.result what
\* reproduce_winners returns
CallRepro ==
    /\ pc = "call"
    /\ fout' = [top |-> TopScored(fromhex(fin.seed_hex).val, fin.period, fin.rows, fin.k_total),
                result |-> reproduce_winners(fin.seed_hex, fin.period, fin.rows, fin.k_total)]
    /\ pc' = "ret"
    /\ IdleUnchanged

NextRepro == CallRepro

SpecRepro == InitRepro /\ [][NextRepro]_vars

\* compute_canonical_snapshot_hash on two inputs
\* an identity that ends one row and opens the next
SplicedUser == <<"a">> \o TagW \o Str(1) \o NL \o TagShard \o Str(1) \o TagUser \o <<"b">>
EncRows ==
    {[shard |-> t[1], user_id |-> t[2], weight |-> 1] :
        t \in {<<1, <<"2">>>>, <<12, <<>>>>, <<1, <<"a">>>>, <<1, <<"b">>>>, <<1, SplicedUser>>}}
\* a period that ends in a whole encoded row
SplicedPeriod == <<"p">> \o TagShard \o Str(1) \o TagUser \o <<"a">> \o TagW \o Str(1) \o NL
EncInputs == [period : {<<"p">>, SplicedPeriod}, rows : SeqsUpTo(EncRows, MaxEncRows)]

InitEncode == Idle /\ fin \in EncInputs \X EncInputs

CallEncode ==
    /\ pc = "call"
    /\ fout' = [i \in {1, 2} |->
                   [stream |-> CanonicalStream(fin[i].period, fin[i].rows),
                    hash |-> compute_canonical_snapshot_hash(fin[i].period, fin[i].rows)]]
    /\ pc' = "ret"
    /\ IdleUnchanged

NextEncode == CallEncode

SpecEncode == InitEncode /\ [][NextEncode]_vars

(***************************************************************************)
(* Properties.                                                             *)
(***************************************************************************)
Logged(e) == \E i \in DOMAIN log : log[i] = e

\* the audit level an entry of the log belongs to
LevelOf(e) ==
    CASE e \in {"l1_match", "l1_mismatch"} -> 1
      [] e \in {"l2_totals", "l2_order", "l2_hash", "l2_pass", "l2_fail"} -> 2
      [] e \in {"l3_unavailable", "l3_reproduce", "l3_error", "l3_match",
                "l3_size_mismatch", "l3_content_mismatch"} -> 3
      [] OTHER -> 0

LoggedLevel(n) == \E i \in DOMAIN log : LevelOf(log[i]) = n

Level2Done == Logged("l2_pass") \/ Logged("l2_fail")

\* record b may follow record a in canonical order
PairInOrder(a, b) ==
    a.shard < b.shard \/ (a.shard = b.shard /\ ~StrLess(b.user_id, a.user_id))

\* the 0-based indices i >= 1 whose record is smaller than record i-1
OutOfOrder(rs) == {i \in 1 .. Len(rs) - 1 : ~PairInOrder(rs[i], rs[i + 1])}

\* C1: with all levels requested the levels are evaluated in the order 1, 2, 3
\* and the run stops at the first failing level: after a Level 1 mismatch the
\* run has ended with status 2 and nothing of Level 2 or 3 was evaluated; after
\* a failed Level 2 the run has ended with status 3 and reproduce_winners was
\* not invoked; Level 3 is evaluated only after Level 1 matched and all three
\* Level 2 sub-checks were evaluated and passed.
C1_FailFast ==
    args["level"] = "all" =>
        /\ \A i, j \in DOMAIN log :
            (i < j /\ LevelOf(log[i]) > 0 /\ LevelOf(log[j]) > 0)
                => LevelOf(log[i]) <= LevelOf(log[j])
        /\ Logged("l1_mismatch") =>
            pc = "done" /\ exit_code = 2 /\ ~LoggedLevel(2) /\ ~LoggedLevel(3)
        /\ Logged("l2_fail") =>
            pc = "done" /\ exit_code = 3 /\ ~LoggedLevel(3)
        /\ (LoggedLevel(2) \/ pc \in {"l2_totals", "l2_order", "l2_hash", "l2_verdict"}) =>
            Logged("l1_match")
        /\ (LoggedLevel(3) \/ pc \in {"level3", "l3_reproduce"}) =>
            /\ Logged("l1_match")
            /\ Logged("l2_totals") /\ Logged("l2_order") /\ Logged("l2_hash")
            /\ Logged("l2_pass")
            /\ l2.ok_totals /\ l2.ok_order /\ l2.ok_hash

\* C1 witness: a run of all levels that invoked reproduce_winners
C1_Witness == args["level"] = "all" /\ Logged("l3_reproduce") /\ pc = "done"

\* C2 as stated: Level 1 reports match exactly when snapshot_hash_hex is
\* present, non-empty and equal, ignoring letter case, to the whole-file digest
\* of the snapshot bytes, and mismatch in every other case.
C2_Original ==
    LoggedLevel(1) =>
        LET published == winners["snapshot_hash_hex"]
            equal == /\ published.some
                     /\ published.val # <<>>
                     /\ Lower(published.val) = Lower(blake2b_hex(snapshot_bytes))
        IN  /\ Logged("l1_match") <=> equal
            /\ Logged("l1_mismatch") <=> ~equal

\* C2 amended: Level 1 reports match exactly when snapshot_hash_hex is present
\* and equal, ignoring letter case and leading and trailing whitespace, to the
\* whole-file digest of the snapshot bytes, and mismatch in every other case.
C2_Level1Match ==
    LoggedLevel(1) =>
        LET published == winners["snapshot_hash_hex"]
            equal == /\ published.some
                     /\ Lower(Strip(published.val)) = Lower(blake2b_hex(snapshot_bytes))
        IN  /\ Logged("l1_match") <=> equal
            /\ Logged("l1_mismatch") <=> ~equal

\* C2 witness: a match reported for a published digest padded with whitespace
C2_Witness ==
    /\ Logged("l1_match")
    /\ Strip(winners["snapshot_hash_hex"].val) # winners["snapshot_hash_hex"].val
    /\ Strip(winners["snapshot_hash_hex"].val) = blake2b_hex(snapshot_bytes)

C4_NegativeWeightFails ==
    (Level2Done /\ \E i \in DOMAIN rows : rows[i].weight < 0) => Logged("l2_fail")

\* C7: whenever Level 3 is reached and winners.json carries no non-empty seed
\* (neither commit.seed_hex nor the top-level seed_hex), the run ends as
\* unavailable under every policy: reproduce_winners is not invoked, no match
\* or mismatch is reported, and the status is 4 under "error" and 0 under
\* "skip" and "warn".
C7_SeedUnavailable ==
    ("commit.seed_hex" \in DOMAIN winners
        /\ OrEmpty(winners["commit.seed_hex"]) = <<>>
        /\ OrEmpty(winners["seed_hex"]) = <<>>) =>
            /\ pc = "done"
            /\ Logged("l3_unavailable")
            /\ ~Logged("l3_reproduce")
            /\ ~Logged("l3_match") /\ ~Logged("l3_size_mismatch")
            /\ ~Logged("l3_content_mismatch") /\ ~Logged("l3_error")
            /\ "on_missing_seed" \in DOMAIN args
            /\ exit_code = (IF args["on_missing_seed"] = "error" THEN 4 ELSE 0)

\* C7 witness: both seed fields present and empty, policy "warn", normal return
C7_Witness ==
    /\ Logged("l3_unavailable")
    /\ winners["commit.seed_hex"] = Some(<<>>)
    /\ winners["seed_hex"] = Some(<<>>)
    /\ args["on_missing_seed"] = "warn"
    /\ exit_code = 0

\* C9: when only Level 1 is requested no parsing is involved: a run whose
\* Level 1 digest matches ends normally (status 0) even when the snapshot
\* bytes are not a well-formed table.
C9_Level1Only ==
    (args["level"] = "1" /\ Logged("l1_match") /\ pc = "done") =>
        (exit_code = 0 /\ ~Logged("parse_error"))

\* C10: in every run of all levels that gets past Level 2, the published
\* snapshot_hash_hex (as both levels compare it: stripped and lowercased)
\* equals the whole-file digest of the raw snapshot bytes and the canonical
\* digest of (period, parsed records), so these two digests are equal.
C10_BothDigests ==
    (args["level"] = "all" /\ (Logged("l2_pass") \/ pc \in {"level3", "l3_reproduce"})) =>
        LET published == winners["snapshot_hash_hex"]
            raw == blake2b_hex(snapshot_bytes)
            canonical ==
                compute_canonical_snapshot_hash(period, parse_snapshot_csv(snapshot_bytes).rows)
        IN  /\ published.some
            /\ Lower(Strip(published.val)) = raw
            /\ Lower(Strip(published.val)) = canonical
            /\ raw = canonical

\* C10 witness: a run of all levels past Level 2 whose snapshot bytes are
\* themselves the canonical stream of (period, rows)
C10_Witness ==
    /\ args["level"] = "all"
    /\ Logged("l2_pass")
    /\ snapshot_bytes = CanonicalStream(period, rows)

\* C5: the canonical encoding is injective: two inputs (period, records) that
\* differ in the period, in the number of records or in any field of any
\* record are fed to the hash as different byte streams.
C5_Injective ==
    pc = "ret" => (fin[1] # fin[2] => fout[1].stream # fout[2].stream)

\* C6: validate_canonical_order returns valid exactly when every adjacent pair
\* is non-decreasing in (shard, identity) order, weights ignored; when invalid
\* the reported index is the smallest out-of-order index, the rule is "shard
\* decreased" exactly when the shard is smaller than the previous one, and
\* "user_id not ascending within shard" exactly when the shards are equal and
\* the identity is smaller than the previous one.
C6_OrderValidator ==
    pc = "ret" =>
        LET bad == OutOfOrder(fin)
        IN  /\ fout.ok <=> bad = {}
            /\ ~fout.ok =>
                LET i == fout.idx
                    cur == fin[i + 1]
                    prev == fin[i]
                IN  /\ i \in bad
                    /\ \A j \in bad : i <= j
                    /\ fout.rule \in {RuleShard, RuleUser}
                    /\ fout.rule = RuleShard <=> cur.shard < prev.shard
                    /\ fout.rule = RuleUser <=>
                        (cur.shard = prev.shard /\ StrLess(cur.user_id, prev.user_id))

\* C6 witness: a sequence with a negative weight and a repeated identity whose
\* last record, at index 2, breaks the identity order
C6_Witness ==
    /\ pc = "ret"
    /\ ~fout.ok /\ fout.idx = 2 /\ fout.rule = RuleUser
    /\ fin[1] = fin[2]
    /\ fin[1].weight < 0

\* the score of input record i, and the order of two scores
ScoreAt(i) ==
    Score(derive_u(fromhex(fin.seed_hex).val, fin.period, fin.rows[i].shard,
                   fin.rows[i].user_id), fin.rows[i].weight)
ScoreTie(i, j) == ~ScoreLess(ScoreAt(i), ScoreAt(j)) /\ ~ScoreLess(ScoreAt(j), ScoreAt(i))

\* C8: for k_total >= 0 reproduce_winners returns exactly min(k_total, P)
\* entries, P the number of records of weight > 0; each entry is a record of
\* weight > 0, no input position is returned twice, the entries are in
\* non-decreasing score order, no record left out has a smaller score than a
\* returned one, and records of equal score keep their input order.
C8_Reproduce ==
    (pc = "ret" /\ fin.k_total >= 0) =>
        LET positive == {i \in DOMAIN fin.rows : fin.rows[i].weight > 0}
            P == Cardinality(positive)
            n == Len(fout.result)
            at(j) == fout.top[j].pos
            returned == {at(j) : j \in 1 .. n}
        IN  /\ n = (IF fin.k_total < P THEN fin.k_total ELSE P)
            /\ Len(fout.top) = n
            /\ \A j \in 1 .. n :
                /\ at(j) \in positive
                /\ fout.result[j] = <<fin.rows[at(j)].user_id, fin.rows[at(j)].weight>>
                /\ fout.result[j][2] > 0
            /\ \A j, m \in 1 .. n : j # m => at(j) # at(m)
            /\ \A j, m \in 1 .. n : j < m =>
                /\ ~ScoreLess(ScoreAt(at(m)), ScoreAt(at(j)))
                /\ ScoreTie(at(j), at(m)) => at(j) < at(m)
            /\ \A i \in positive \ returned : \A j \in 1 .. n :
                /\ ~ScoreLess(ScoreAt(i), ScoreAt(at(j)))
                /\ ScoreTie(i, at(j)) => at(j) < i

\* C8 witness: k_total = 1 and three input records: one of weight <= 0 is
\* skipped, and a scored record left out ties with the one returned
C8_Witness ==
    /\ pc = "ret"
    /\ fin.k_total = 1
    /\ Len(fout.result) = 1
    /\ Len(fin.rows) = 3
    /\ \E i \in DOMAIN fin.rows : fin.rows[i].weight <= 0
    /\ \E i \in DOMAIN fin.rows :
        /\ i # fout.top[1].pos /\ fin.rows[i].weight > 0
        /\ ScoreTie(i, fout.top[1].pos)

====
